---- MODULE Spec2Model ----
(***************************************************************************)
(* Connection lifecycle of pystanssh: BaseConnection (base.py) and         *)
(* PyStan2SSH (pystan2.py).                                                *)
(*                                                                         *)
(* The client object holds two handles, self.client (the paramiko          *)
(* SSHClient) and self.stfp_tunnel (the SFTP client opened on it).  Every  *)
(* method is a blocking call on one thread, so each public method is one   *)
(* atomic action.  A method is written as an operator from the state       *)
(* before the call to the set of its possible results; the environment     *)
(* (paramiko, the operator at the console) chooses among them.             *)
(*                                                                         *)
(* The paramiko calls made are recorded the way a mock transport records   *)
(* them: counters of connect and open_sftp calls and the ordered log of    *)
(* the calls made by the operation in progress.                            *)
(*                                                                         *)
(* Path and command-string arguments do not influence the connection       *)
(* state; what a call makes of them is followed separately (SpecArgs).     *)
(***************************************************************************)
EXTENDS Integers, Sequences, FiniteSets, TLC

VARIABLES
    client,       \* self.client: None or the id of the SSHClient instance
    connected,    \* whether a connect() call on self.client has succeeded
    stfp_tunnel,  \* self.stfp_tunnel: None or the id of the SFTP client
    dials,        \* number of SSHClient.connect calls made so far
    pwConnects,   \* number of those made with password=...
    sftpOpens,    \* number of SSHClient.open_sftp calls made so far
    nClients,     \* number of paramiko.SSHClient() instances created so far
    port,         \* self.port
    dialPort,     \* port= of the last connect call on self.client, or None
    trace,        \* paramiko calls made by the last operation, in order
    prev,         \* record of the operation before the last one
    last,         \* record of the last operation
    nOps,         \* number of operations called on the client so far
    given,        \* arguments of the call whose path handling is followed
    computed      \* the destination and command that call works out

vars == <<client, connected, stfp_tunnel, dials, pwConnects, sftpOpens,
          nClients, port, dialPort, trace, prev, last, nOps, given, computed>>

\* Number of public method calls made on one client object.
MaxOps == 3

\* Python's None for a handle attribute.
None == 0

\* self.port after construction (base.py line 26).
DefaultPort == 22

\* Port numbers a caller may pass to _change_port.
Ports == {22, 2222}

\* Path arguments a caller may pass to get.
PathArgs == {"a.txt", "b.txt"}

\* What the operator may type at the 'Try password?  [y/n]: ' prompt; the
\* log shows "input" and then the answer.
Answers == {"y", "n", "Y", "yes", ""}

\* How a paramiko call that can fail ends.
ConnectOutcomes == {"ok", "AuthenticationException", "SSHException"}

(***************************************************************************)
(* Results of a call.                                                      *)
(***************************************************************************)
NoRet == [kind |-> "none", id |-> 0]
ClientRet(c) == [kind |-> "client", id |-> c]
TunnelRet(t) == [kind |-> "tunnel", id |-> t]
AttrsRet == [kind |-> "attrs", id |-> 0]
TrueRet == [kind |-> "True", id |-> 0]
StreamsRet == [kind |-> "streams", id |-> 0]

Returned(s, ret) == [s |-> s, out |-> "returned", err |-> "", ret |-> ret]
Raised(s, err) == [s |-> s, out |-> "raised", err |-> err, ret |-> NoRet]

Log(s, call) == [s EXCEPT !.trace = Append(@, call)]

\* A paramiko call raises err: the log shows it and the exception propagates.
Fails(s, err) == Raised(Log(s, err), err)

(***************************************************************************)
(* BaseConnection._change_port                                             *)
(***************************************************************************)
\* _change_port refusing once a client is stored.
_change_port_guarded(s, new_port) ==
    IF s.client = None
    THEN { Returned([s EXCEPT !.port = new_port], NoRet) }
    ELSE { Returned(s, NoRet) }

_change_port(s, new_port) == { Returned([s EXCEPT !.port = new_port], NoRet) }

(***************************************************************************)
(* BaseConnection.connect_ssh                                              *)
(***************************************************************************)
\* The retry treating every answer but "n" as consent.
PasswordRetry_unless_n(s, try_password) ==
    IF try_password # "n"
    THEN LET s1 == Log([s EXCEPT !.dials = @ + 1, !.pwConnects = @ + 1],
                       "connect_password")
         IN  { IF o = "ok"
               THEN Returned([s1 EXCEPT !.connected = TRUE], ClientRet(s1.client))
               ELSE Fails(s1, o) : o \in ConnectOutcomes }
    ELSE { Raised(s, "AuthenticationException") }

\* The retry connecting with the password a second time when the first
\* password connect fails.
PasswordRetry_twice(s, try_password) ==
    IF try_password = "y"
    THEN LET s1 == Log([s EXCEPT !.dials = @ + 1, !.pwConnects = @ + 1],
                       "connect_password")
             s2 == Log([s1 EXCEPT !.dials = @ + 1, !.pwConnects = @ + 1],
                       "connect_password")
         IN  { Returned([s1 EXCEPT !.connected = TRUE], ClientRet(s1.client)) }
             \cup { IF o = "ok"
                    THEN Returned([s2 EXCEPT !.connected = TRUE], ClientRet(s2.client))
                    ELSE Fails(s2, o) : o \in ConnectOutcomes }
    ELSE { Raised(s, "AuthenticationException") }

\* The retry with 'except: pass' in place of 'except: raise'.
PasswordRetry_pass(s, try_password) ==
    IF try_password = "y"
    THEN LET s1 == Log([s EXCEPT !.dials = @ + 1, !.pwConnects = @ + 1],
                       "connect_password")
         IN  { IF o = "ok"
               THEN Returned([s1 EXCEPT !.connected = TRUE], ClientRet(s1.client))
               ELSE Returned(Log(s1, o), ClientRet(s1.client)) : o \in ConnectOutcomes }
    ELSE { Raised(s, "AuthenticationException") }

\* The retry with a password (lines 59-75), entered with the operator's
\* answer after key authentication failed.
PasswordRetry(s, try_password) ==
    IF try_password = "y"
    THEN LET s1 == Log([s EXCEPT !.dials = @ + 1, !.pwConnects = @ + 1],
                       "connect_password")
         IN  { IF o = "ok"
               THEN Returned([s1 EXCEPT !.connected = TRUE], ClientRet(s1.client))
               ELSE Fails(s1, o) : o \in ConnectOutcomes }
    ELSE { Raised(s, "AuthenticationException") }

\* connect_ssh without the 'if self.client is None' check: dials every time.
connect_ssh_always_dials(s) ==
    LET s1 == Log([s EXCEPT !.client = s.nClients + 1,
                            !.nClients = @ + 1,
                            !.connected = FALSE], "SSHClient")
        s2 == Log([s1 EXCEPT !.dials = @ + 1, !.dialPort = s.port], "connect")
        s3 == Log(Log(s2, "AuthenticationException"), "input")
    IN  { Returned([s2 EXCEPT !.connected = TRUE], ClientRet(s2.client)) }
        \cup { Fails(s2, "SSHException") }
        \cup UNION { PasswordRetry(Log(s3, a), a) : a \in Answers }

connect_ssh(s) ==
    IF s.client = None
    THEN LET s1 == Log([s EXCEPT !.client = s.nClients + 1,
                                 !.nClients = @ + 1,
                                 !.connected = FALSE], "SSHClient")
             s2 == Log([s1 EXCEPT !.dials = @ + 1, !.dialPort = s.port], "connect")
             s3 == Log(Log(s2, "AuthenticationException"), "input")
         IN  { Returned([s2 EXCEPT !.connected = TRUE], ClientRet(s2.client)) }
             \cup { Fails(s2, "SSHException") }
             \cup UNION { PasswordRetry(Log(s3, a), a) : a \in Answers }
    ELSE { Returned(s, ClientRet(s.client)) }

(***************************************************************************)
(* BaseConnection.connect_sftp, send, send_fileobject                      *)
(***************************************************************************)
\* self.client.open_sftp(): needs an authenticated transport.
OpenOutcomes(s) == IF s.connected THEN {"ok", "SSHException"} ELSE {"SSHException"}

\* self.stfp_tunnel.chdir(host_path): a missing directory raises
\* FileNotFoundError, which connect_sftp catches; anything else propagates.
ChdirOutcomes == {"ok", "FileNotFoundError", "IOError"}

\* Lines 95-106: open the tunnel, then change directory if host_path is given.
OpenTunnel(s, host_path) ==
    LET s1 == Log([s EXCEPT !.sftpOpens = @ + 1], "open_sftp")
        s2 == [s1 EXCEPT !.stfp_tunnel = s1.sftpOpens]
        s3 == Log(s2, "chdir")
    IN  UNION { IF o # "ok" THEN { Fails(s1, o) }
                ELSE IF ~host_path THEN { Returned(s2, TunnelRet(s2.stfp_tunnel)) }
                ELSE { IF c = "IOError" THEN Fails(s3, c)
                       ELSE Returned(IF c = "ok" THEN s3 ELSE Log(s3, c),
                                     TunnelRet(s3.stfp_tunnel))
                       : c \in ChdirOutcomes }
              : o \in OpenOutcomes(s) }

\* A raise of connect_ssh (line 92) propagates.
connect_sftp(s, host_path) ==
    UNION { IF r.out = "raised" THEN { r } ELSE OpenTunnel(r.s, host_path)
            : r \in IF s.client = None THEN connect_ssh(s)
                                       ELSE { Returned(s, NoRet) } }

\* How a transfer over the open tunnel ends.
TransferOutcomes == {"ok", "IOError"}

\* self.stfp_tunnel.<call>(...) on the open tunnel.
Transfer(s, call) ==
    LET s1 == Log(s, call)
    IN  { IF o = "ok" THEN Returned(s1, AttrsRet) ELSE Fails(s1, o)
          : o \in TransferOutcomes }

\* The guard 'if self.stfp_tunnel is None' left out: connect_sftp every time.
EnsureTunnel_always_opens(s) == connect_sftp(s, FALSE)

\* Lines 118-120, 143-145, 166-168 and 190-192.
EnsureTunnel(s) ==
    IF s.stfp_tunnel = None THEN connect_sftp(s, FALSE) ELSE { Returned(s, NoRet) }

send(s) ==
    UNION { IF r.out = "raised" THEN { r } ELSE Transfer(r.s, "put")
            : r \in EnsureTunnel(s) }

send_fileobject(s) ==
    UNION { IF r.out = "raised" THEN { r } ELSE Transfer(r.s, "putfo")
            : r \in EnsureTunnel(s) }

(***************************************************************************)
(* BaseConnection.get, get_fileobject                                      *)
(***************************************************************************)
\* self.stfp_tunnel.get(first, second): paramiko's SFTPClient.get takes the
\* remote path first and the local path second; the log shows the call and
\* then its two arguments in that order.
ChannelGet(s, remotepath, localpath) ==
    LET s1 == Log(Log(Log(s, "get"), remotepath), localpath)
    IN  { IF o = "ok" THEN Returned(s1, AttrsRet) ELSE Fails(s1, o)
          : o \in TransferOutcomes }

\* Line 178 passes local_path first and host_path second.
get(s, host_path, local_path) ==
    UNION { IF r.out = "raised" THEN { r } ELSE ChannelGet(r.s, local_path, host_path)
            : r \in EnsureTunnel(s) }

\* Line 199 names file_object, which get_fileobject never binds: evaluating
\* the arguments raises NameError before getfo is called.
get_fileobject(s) ==
    UNION { IF r.out = "raised" THEN { r } ELSE { Raised(r.s, "NameError") }
            : r \in EnsureTunnel(s) }

(***************************************************************************)
(* BaseConnection.close_sftp, close_ssh                                    *)
(***************************************************************************)
close_sftp(s) ==
    IF s.stfp_tunnel = None
    THEN { Returned(s, TrueRet) }
    ELSE { Returned([Log(s, "sftp.close") EXCEPT !.stfp_tunnel = None], TrueRet) }

\* close_ssh without lines 227-228: the tunnel is left as it is.
close_ssh_no_cascade(s) ==
    IF s.client = None
    THEN { Returned(s, TrueRet) }
    ELSE { Returned([Log(s, "client.close")
                        EXCEPT !.client = None, !.connected = FALSE], TrueRet) }

close_ssh(s) ==
    IF s.client = None
    THEN { Returned(s, TrueRet) }
    ELSE { Returned([Log(r.s, "client.close")
                        EXCEPT !.client = None, !.connected = FALSE], TrueRet)
           : r \in IF s.stfp_tunnel # None THEN close_sftp(s)
                                           ELSE { Returned(s, TrueRet) } }

(***************************************************************************)
(* PyStan2SSH.upload_data, upload_file, run_python_script                  *)
(***************************************************************************)
\* Lines 47-51 and 87-91: close if asked to, then return send_output.
CloseAndReturn(s, send_output, close_connection) ==
    IF close_connection
    THEN { Returned(c.s, send_output) : c \in close_ssh(s) }
    ELSE { Returned(s, send_output) }

\* 'except IOError' in place of 'except Exception'.
Swallow_io_only(results) ==
    { IF r.out = "raised" /\ r.err = "IOError" THEN Returned(r.s, NoRet) ELSE r
      : r \in results }

\* Lines 37-45 and 77-85: 'except Exception' turns a raise into a None
\* result; what the handler does not catch propagates past the close.
Swallow(results) ==
    { IF r.out = "raised" THEN Returned(r.s, NoRet) ELSE r : r \in results }

\* serializable: whether json.dumps accepts data (line 34, before the try).
upload_data(s, serializable, close_connection) ==
    IF ~serializable
    THEN { Raised(s, "TypeError") }
    ELSE UNION { IF r.out = "raised" THEN { r }
                 ELSE CloseAndReturn(r.s, r.ret, close_connection)
                 : r \in Swallow(send_fileobject(s)) }

\* upload_file closing the connection inside the try, after a successful send.
upload_file_close_in_try(s, close_connection) ==
    UNION { IF r.out = "raised" \/ r.ret = NoRet THEN { r }
            ELSE CloseAndReturn(r.s, r.ret, close_connection)
            : r \in Swallow(send(s)) }

upload_file(s, close_connection) ==
    UNION { IF r.out = "raised" THEN { r }
            ELSE CloseAndReturn(r.s, r.ret, close_connection)
            : r \in Swallow(send(s)) }

\* self.client.exec_command(command), lines 144-150: any failure propagates.
ExecCommand(s) ==
    LET s1 == Log(s, "exec_command")
    IN  IF s.connected
        THEN { Returned(s1, StreamsRet), Fails(s1, "SSHException") }
        ELSE { Fails(s1, "SSHException") }

\* local_path: whether a local script path is given.
\* Lines 114-129: stage the script and close the tunnel, or just connect.
StageOrConnect(s, local_path) ==
    IF local_path
    THEN UNION { IF u.out = "raised" THEN { u } ELSE close_sftp(u.s)
                 : u \in upload_file(s, FALSE) }
    ELSE connect_ssh(s)

\* run_python_script without the close_sftp() of line 126.
run_python_script_keeps_tunnel(s, local_path) ==
    UNION { IF r.out = "raised" THEN { r } ELSE ExecCommand(r.s)
            : r \in IF local_path THEN upload_file(s, FALSE) ELSE connect_ssh(s) }

run_python_script(s, local_path) ==
    UNION { IF r.out = "raised" THEN { r } ELSE ExecCommand(r.s)
            : r \in StageOrConnect(s, local_path) }

(***************************************************************************)
(* Path handling and command assembly of PyStan2SSH.                       *)
(*                                                                         *)
(* A string is a sequence of characters, a path is its sequence of names   *)
(* tagged with the Python type it is held in, and an optional argument is  *)
(* the empty set (None) or the set of its one value.                       *)
(***************************************************************************)
\* Longest file name given to upload_data.
MaxNameLen == 5

\* Most script arguments given to run_python_script.
MaxArgs == 2

Chars == {"a", "b", "."}

JsonSuffix == <<".", "j", "s", "o", "n">>

\* All strings over Chars of length 1..n.
StringsUpTo(n) == UNION { [1..k -> Chars] : k \in 1..n }

\* File names given to upload_data: they neither start nor end with a dot.
FileNames ==
    { n \in StringsUpTo(MaxNameLen) : n[1] # "." /\ n[Len(n)] # "." }

\* Names of script files and remote directories: run.py, other.py, run, dir.
ScriptNames ==
    { <<"r", "u", "n", ".", "p", "y">>, <<"o", "t", "h", "e", "r", ".", "p", "y">>,
      <<"r", "u", "n">>, <<"d", "i", "r">> }

\* Directories the paths lie in.
Dirs == { <<>>, << <<"h", "o", "m", "e">> >> }

PathTypes == {"str", "Path"}

\* Paths a caller may pass, as str or as pathlib.Path.
DirPaths == { [type |-> ty, parts |-> Append(d, <<"t", "m", "p">>)]
              : ty \in PathTypes, d \in Dirs }
ScriptPaths == { [type |-> ty, parts |-> Append(d, n)]
                 : ty \in PathTypes, d \in Dirs, n \in ScriptNames }

\* Interpreter commands, options and script arguments.
Words == { <<"p", "y">>, <<"-", "u">> }

\* The values of an optional argument drawn from S.
Optional(S) == { {} } \cup { {v} : v \in S }

\* The value of an optional argument that is given.
The(opt) == CHOOSE v \in opt : TRUE

\* self._pathtype_check(path): str or Path in, Path out.
_pathtype_check(path) == [type |-> "Path", parts |-> path.parts]

\* pathlib: path.name, path.parent, path / name.
Name(path) == path.parts[Len(path.parts)]
Parent(path) == [type |-> "Path", parts |-> SubSeq(path.parts, 1, Len(path.parts) - 1)]
Join(path, name) == [type |-> "Path", parts |-> Append(path.parts, name)]

\* Position of the last "." of a name, 0 if it has none (str.rfind).
LastDot(name) ==
    LET dots == { i \in 1..Len(name) : name[i] = "." }
    IN  IF dots = {} THEN 0 ELSE CHOOSE i \in dots : \A j \in dots : j <= i

\* pathlib: path.suffix, from the last "." that is neither the first nor the
\* last character of the name.
Suffix(path) ==
    LET name == Name(path)
        i == LastDot(name)
    IN  IF 1 < i /\ i < Len(name) THEN SubSeq(name, i, Len(name)) ELSE <<>>

\* fname.split('.')[0]: the characters before the first ".".
RECURSIVE SplitFirst(_)
SplitFirst(fname) ==
    IF fname = <<>> \/ Head(fname) = "." THEN <<>>
    ELSE <<Head(fname)>> \o SplitFirst(Tail(fname))

\* sep.join(strings).
RECURSIVE StrJoin(_, _)
StrJoin(sep, strings) ==
    IF strings = <<>> THEN <<>>
    ELSE IF Len(strings) = 1 THEN strings[1]
    ELSE strings[1] \o sep \o StrJoin(sep, Tail(strings))

Space == <<" ">>

\* upload_data, lines 27-31: host_file_path.
upload_data_target(host_path, fname) ==
    Join(_pathtype_check(host_path), SplitFirst(fname) \o JsonSuffix)

\* upload_file, lines 63-74: the host_path handed to send.
upload_file_target(file_path, host_path) ==
    LET hp == _pathtype_check(host_path)
        fp == _pathtype_check(file_path)
    IN  IF Suffix(hp) = <<>> THEN Join(hp, Name(fp)) ELSE hp

\* run_python_script keeping a remote name that has a suffix, as upload_file
\* does.
run_python_script_path_keeps_name(python_path, local_path) ==
    LET pp == _pathtype_check(python_path)
    IN  IF local_path = {} THEN pp
        ELSE IF Suffix(pp) = <<>>
             THEN Join(pp, Name(_pathtype_check(The(local_path))))
             ELSE pp

\* run_python_script, lines 111-123: python_path after the adjustment.
run_python_script_path(python_path, local_path) ==
    LET pp == _pathtype_check(python_path)
    IN  IF local_path = {} THEN pp
        ELSE LET lp == _pathtype_check(The(local_path))
             IN  IF Suffix(pp) = <<>> THEN Join(pp, Name(lp))
                 ELSE IF Name(pp) # Name(lp) THEN Join(Parent(pp), Name(lp))
                 ELSE pp

\* run_python_script, line 125: where upload_file stages the script, if a
\* local path is given.
run_python_script_staged(python_path, local_path) ==
    IF local_path = {} THEN {}
    ELSE { upload_file_target(The(local_path),
                              run_python_script_path(python_path, local_path)) }

\* run_python_script, lines 131-142: the command string.
run_python_script_command(python_path, cmd_opt, py_args, local_path, python_cmd) ==
    StrJoin(Space,
            <<python_cmd>>
            \o (IF cmd_opt # {} THEN <<The(cmd_opt)>> ELSE <<>>)
            \o <<Name(run_python_script_path(python_path, local_path))>>
            \o (IF py_args # {} THEN <<StrJoin(Space, The(py_args))>> ELSE <<>>))

(***************************************************************************)
(* The state machine.                                                      *)
(***************************************************************************)
Cur ==
    [client |-> client, connected |-> connected, stfp_tunnel |-> stfp_tunnel,
     dials |-> dials, pwConnects |-> pwConnects, sftpOpens |-> sftpOpens,
     nClients |-> nClients, port |-> port, dialPort |-> dialPort,
     trace |-> <<>>]

Pre ==
    [client |-> client, connected |-> connected, stfp_tunnel |-> stfp_tunnel,
     dials |-> dials, pwConnects |-> pwConnects, sftpOpens |-> sftpOpens,
     nClients |-> nClients, port |-> port, dialPort |-> dialPort]

\* No call is being followed.
Nothing == [fn |-> "none"]

NoOp ==
    [op |-> "", flag |-> FALSE, args |-> <<>>, out |-> "", err |-> "",
     ret |-> NoRet,
     pre |-> [client |-> None, connected |-> FALSE, stfp_tunnel |-> None,
              dials |-> 0, pwConnects |-> 0, sftpOpens |-> 0, nClients |-> 0,
              port |-> DefaultPort, dialPort |-> None]]

\* One call of method op (with boolean argument flag and path arguments
\* args) ending in result r.
CallWith(op, flag, args, r) ==
    /\ nOps < MaxOps
    /\ client' = r.s.client
    /\ connected' = r.s.connected
    /\ stfp_tunnel' = r.s.stfp_tunnel
    /\ dials' = r.s.dials
    /\ pwConnects' = r.s.pwConnects
    /\ sftpOpens' = r.s.sftpOpens
    /\ nClients' = r.s.nClients
    /\ port' = r.s.port
    /\ dialPort' = r.s.dialPort
    /\ trace' = r.s.trace
    /\ prev' = last
    /\ last' = [op |-> op, flag |-> flag, args |-> args, out |-> r.out,
                err |-> r.err, ret |-> r.ret, pre |-> Pre]
    /\ nOps' = nOps + 1
    /\ UNCHANGED <<given, computed>>

Call(op, flag, r) == CallWith(op, flag, <<>>, r)

Init ==
    /\ client = None
    /\ connected = FALSE
    /\ stfp_tunnel = None
    /\ dials = 0
    /\ pwConnects = 0
    /\ sftpOpens = 0
    /\ nClients = 0
    /\ port = DefaultPort
    /\ dialPort = None
    /\ trace = <<>>
    /\ prev = NoOp
    /\ last = NoOp
    /\ nOps = 0
    /\ given = Nothing
    /\ computed = Nothing

ChangePort ==
    \E new_port \in Ports : \E r \in _change_port(Cur, new_port) :
        Call("_change_port", FALSE, r)

Get ==
    \E host_path \in PathArgs, local_path \in PathArgs :
        \E r \in get(Cur, host_path, local_path) :
            CallWith("get", FALSE, <<host_path, local_path>>, r)

GetFileobject == \E r \in get_fileobject(Cur) : Call("get_fileobject", FALSE, r)

ConnectSsh == \E r \in connect_ssh(Cur) : Call("connect_ssh", FALSE, r)

ConnectSftp ==
    \E host_path \in BOOLEAN : \E r \in connect_sftp(Cur, host_path) :
        Call("connect_sftp", host_path, r)

Send == \E r \in send(Cur) : Call("send", FALSE, r)

SendFileobject == \E r \in send_fileobject(Cur) : Call("send_fileobject", FALSE, r)

CloseSftp == \E r \in close_sftp(Cur) : Call("close_sftp", FALSE, r)

CloseSsh == \E r \in close_ssh(Cur) : Call("close_ssh", FALSE, r)

UploadData ==
    \E serializable \in BOOLEAN, close_connection \in BOOLEAN :
        \E r \in upload_data(Cur, serializable, close_connection) :
            Call("upload_data", close_connection, r)

UploadFile ==
    \E close_connection \in BOOLEAN :
        \E r \in upload_file(Cur, close_connection) :
            Call("upload_file", close_connection, r)

RunPythonScript ==
    \E local_path \in BOOLEAN :
        \E r \in run_python_script(Cur, local_path) :
            Call("run_python_script", local_path, r)

Next ==
    \/ ChangePort
    \/ ConnectSsh
    \/ ConnectSftp
    \/ Send
    \/ SendFileobject
    \/ Get
    \/ GetFileobject
    \/ CloseSftp
    \/ CloseSsh
    \/ UploadData
    \/ UploadFile
    \/ RunPythonScript

Spec == Init /\ [][Next]_vars

(***************************************************************************)
(* Path handling followed for one call: the arguments are drawn at the     *)
(* start, the step works out what the call transfers to or dispatches.     *)
(***************************************************************************)
UploadDataArgs ==
    [fn : {"upload_data"}, host_path : DirPaths, fname : FileNames]

ArgLists == UNION { [1..k -> Words] : k \in 0..MaxArgs }

RunPythonScriptArgs ==
    [fn : {"run_python_script"}, python_path : ScriptPaths,
     cmd_opt : Optional(Words), py_args : Optional(ArgLists),
     local_path : Optional(ScriptPaths), python_cmd : Words]

InitArgs ==
    /\ client = None
    /\ connected = FALSE
    /\ stfp_tunnel = None
    /\ dials = 0
    /\ pwConnects = 0
    /\ sftpOpens = 0
    /\ nClients = 0
    /\ port = DefaultPort
    /\ dialPort = None
    /\ trace = <<>>
    /\ prev = NoOp
    /\ last = NoOp
    /\ nOps = 0
    /\ given \in UploadDataArgs \cup RunPythonScriptArgs
    /\ computed = Nothing

UploadDataPath ==
    /\ given.fn = "upload_data" /\ computed = Nothing
    /\ computed' = [fn |-> "upload_data",
                    target |-> upload_data_target(given.host_path, given.fname)]
    /\ UNCHANGED <<client, connected, stfp_tunnel, dials, pwConnects, sftpOpens,
                   nClients, port, dialPort, trace, prev, last, nOps, given>>

RunPythonScriptCommand ==
    /\ given.fn = "run_python_script" /\ computed = Nothing
    /\ computed' =
           [fn |-> "run_python_script",
            staged |-> run_python_script_staged(given.python_path, given.local_path),
            command |-> run_python_script_command(given.python_path, given.cmd_opt,
                            given.py_args, given.local_path, given.python_cmd)]
    /\ UNCHANGED <<client, connected, stfp_tunnel, dials, pwConnects, sftpOpens,
                   nClients, port, dialPort, trace, prev, last, nOps, given>>

NextArgs ==
    \/ UploadDataPath
    \/ RunPythonScriptCommand

SpecArgs == InitArgs /\ [][NextArgs]_vars

(***************************************************************************)
(* Properties.                                                             *)
(***************************************************************************)
\* The handles and call counters now, to compare with last.pre.
Now == Pre

\* The first two calls on a fresh client were connect_ssh, the first returning.
TwoConnects ==
    /\ nOps = 2
    /\ prev.op = "connect_ssh" /\ prev.out = "returned"
    /\ last.op = "connect_ssh"

\* C1 as stated: connect_ssh twice on a fresh client, the first call
\* succeeding, gives one stored handle, returned both times, no error, and
\* exactly one connect call in total.
C1_OneDialInTotal ==
    TwoConnects =>
        /\ last.out = "returned"
        /\ last.ret = prev.ret
        /\ last.ret = ClientRet(client) /\ client # None
        /\ nClients = 1
        /\ dials = 1

\* C1 amended: connect_ssh twice on a fresh client, the first call succeeding,
\* gives one stored handle, returned both times, no error; the second call
\* makes no paramiko call at all, so the connect calls in total are those of
\* the first call: one when key authentication succeeded, two (the key attempt
\* and one password attempt) when it succeeded through the password retry.
C1_IdempotentConnect ==
    TwoConnects =>
        /\ last.out = "returned"
        /\ last.ret = prev.ret
        /\ last.ret = ClientRet(client) /\ client # None
        /\ nClients = 1
        /\ trace = <<>>
        /\ Now = last.pre
        /\ pwConnects \in {0, 1}
        /\ dials = 1 + pwConnects

C1_Witness == TwoConnects /\ last.out = "returned" /\ pwConnects = 1

\* The first two calls on a fresh client were connect_sftp, the first returning.
TwoOpens ==
    /\ nOps = 2
    /\ prev.op = "connect_sftp" /\ prev.out = "returned"
    /\ last.op = "connect_sftp"

\* C2: connect_sftp twice in succession yields one tunnel: the second call
\* returns the tunnel the first call opened and open_sftp was called once.
C2_IdempotentTunnelOpen ==
    TwoOpens =>
        /\ last.out = "returned"
        /\ last.ret = prev.ret
        /\ stfp_tunnel = last.pre.stfp_tunnel
        /\ sftpOpens = 1

\* C3: close_ssh with session and tunnel open closes the tunnel, then the
\* connection, and clears both handles; close_ssh with no session (a second
\* close, or a client that never connected) returns without a paramiko
\* call and without changing anything.
C3_CascadingClose ==
    last.op = "close_ssh" =>
        /\ last.out = "returned"
        /\ client = None /\ stfp_tunnel = None
        /\ (last.pre.client # None /\ last.pre.stfp_tunnel # None
              => trace = <<"sftp.close", "client.close">>)
        /\ (last.pre.client = None => trace = <<>> /\ Now = last.pre)
        /\ (prev.op = "close_ssh" => last.pre.client = None)

C3_Witness ==
    /\ prev.op = "close_ssh" /\ prev.pre.client # None /\ prev.pre.stfp_tunnel # None
    /\ last.op = "close_ssh" /\ last.out = "returned"
\* The two upload operations of PyStan2SSH.
Uploads == {"upload_data", "upload_file"}

\* C4: upload_data and upload_file never throw: whatever fails, the call
\* returns to the caller.
C4_UploadsNeverThrow == last.op \in Uploads => last.out = "returned"

\* C5: an upload called with close_connection=True has, on return, cleared
\* both the session handle and the tunnel handle, whether the transfer
\* succeeded or raised and was swallowed into a None result.
C5_ClosedAfterUpload ==
    last.op \in Uploads /\ last.flag /\ last.out = "returned" =>
        /\ client = None /\ stfp_tunnel = None
        /\ (last.pre.client # None => trace[Len(trace)] = "client.close")

\* upload_file whose put raised, with close_connection=True.
C5_Witness ==
    /\ last.op = "upload_file" /\ last.flag /\ last.out = "returned"
    /\ last.ret = NoRet
    /\ \E i \in 1..Len(trace) - 1 : trace[i] = "put" /\ trace[i + 1] = "IOError"

\* Positions of the log, and the errors paramiko raises.
Pos == 1..Len(trace)
Errors == {"AuthenticationException", "SSHException", "IOError", "FileNotFoundError"}

\* The operator was asked and answered something other than 'y'.
Declined == \E i \in Pos : i < Len(trace) /\ trace[i] = "input" /\ trace[i + 1] # "y"

\* The password connect was called and raised err.
PwRaised(err) ==
    \E i \in Pos : i < Len(trace) /\ trace[i] = "connect_password" /\ trace[i + 1] = err

\* The password connect was called and succeeded.
PwOk ==
    \E i \in Pos : /\ trace[i] = "connect_password"
                   /\ (i = Len(trace) \/ trace[i + 1] \notin Errors)

\* connect_ssh ran inside the last operation and failed with an
\* authentication failure.
AuthFailed == Declined \/ PwRaised("AuthenticationException")

\* C6 as stated: whenever connect_ssh fails with an authentication failure,
\* the operation that called it ends with that failure propagated.
C6_AuthAlwaysSurfaced ==
    AuthFailed => last.out = "raised" /\ last.err = "AuthenticationException"

\* C6 amended: an authentication failure of connect_ssh is propagated by
\* connect_ssh itself, by connect_sftp, send and send_fileobject, and by
\* run_python_script called without a local script path; upload_data and
\* upload_file swallow it and return None; run_python_script called with a
\* local script path goes on to exec_command after the swallowed failure and
\* ends with the error of that call, not with the authentication failure.
C6_AuthSurfacedOutsideUploads ==
    AuthFailed =>
        /\ (last.op \in {"connect_ssh", "connect_sftp", "send", "send_fileobject"}
              \/ (last.op = "run_python_script" /\ ~last.flag)
              => last.out = "raised" /\ last.err = "AuthenticationException")
        /\ (last.op \in Uploads => last.out = "returned" /\ last.ret = NoRet)
        /\ (last.op = "run_python_script" /\ last.flag
              => /\ last.out = "raised" /\ last.err # "AuthenticationException"
                 /\ trace[Len(trace) - 1] = "exec_command")

C6_Witness ==
    /\ AuthFailed /\ last.op = "upload_data" /\ last.out = "returned"
    /\ last.ret = NoRet

\* C7: when key authentication fails and the answer to the prompt is
\* anything but 'y', connect_ssh raises the authentication error and makes
\* no connect call with a password.
C7_DeclineRaises ==
    last.op = "connect_ssh" /\ Declined =>
        /\ last.out = "raised" /\ last.err = "AuthenticationException"
        /\ pwConnects = last.pre.pwConnects
        /\ dials = last.pre.dials + 1
        /\ \A i \in Pos : trace[i] # "connect_password"

\* The answer was not 'n' either.
C7_Witness ==
    /\ last.op = "connect_ssh" /\ Declined /\ last.out = "raised"
    /\ trace[Len(trace)] = "Y"

\* C8: when key authentication fails, the answer is 'y' and the password
\* connect succeeds, connect_ssh returns the stored, connected handle and
\* exactly one connect call with a password was made.
C8_AcceptConnects ==
    last.op = "connect_ssh" /\ PwOk =>
        /\ last.out = "returned"
        /\ last.ret = ClientRet(client) /\ client # None /\ connected
        /\ pwConnects = last.pre.pwConnects + 1
        /\ Cardinality({i \in Pos : trace[i] = "connect_password"}) = 1

C8_Witness ==
    /\ last.op = "connect_ssh" /\ PwOk /\ last.out = "returned" /\ connected
    /\ trace = <<"SSHClient", "connect", "AuthenticationException", "input", "y",
                 "connect_password">>

\* The password connect was called and raised.
PwFailed == \E e \in Errors : PwRaised(e)

\* C9 as stated: when the password connect fails, for any reason, connect_ssh
\* fails with an authentication error and the password connect is not tried
\* a second time.
C9_RetryFailureIsAuthError ==
    last.op = "connect_ssh" /\ PwFailed =>
        /\ last.out = "raised" /\ last.err = "AuthenticationException"
        /\ pwConnects = last.pre.pwConnects + 1

\* C9 amended: when the password connect fails, connect_ssh fails with the
\* very error the password connect raised (an authentication error exactly
\* when the password connect failed to authenticate), and the password
\* connect is not tried a second time.
C9_RetryFailurePropagates ==
    last.op = "connect_ssh" /\ PwFailed =>
        /\ last.out = "raised"
        /\ PwRaised(last.err)
        /\ last.err = trace[Len(trace)]
        /\ pwConnects = last.pre.pwConnects + 1
        /\ Cardinality({i \in Pos : trace[i] = "connect_password"}) = 1

C9_Witness ==
    /\ last.op = "connect_ssh" /\ PwRaised("SSHException")
    /\ last.out = "raised" /\ last.err = "SSHException"

\* Every call named a comes before every call named b in the log.
Before(a, b) == \A i, j \in Pos : trace[i] = a /\ trace[j] = b => i < j

C11_PortFixedOnceConnected ==
    /\ (last.op = "_change_port" /\ last.pre.client # None /\ last.pre.connected
          => port = last.pre.port)
    /\ (client # None /\ connected => port = dialPort)

\* C15: get(host_path, local_path) asks the channel to download with
\* host_path as the remote source and local_path as the local destination.
C15_GetDirection ==
    last.op = "get" =>
        \A i \in Pos : trace[i] = "get" =>
            /\ trace[i + 1] = last.args[1]
            /\ trace[i + 2] = last.args[2]

\* C16: get_fileobject, once session and tunnel are established, returns the
\* transfer metadata and does not end in an error.
C16_GetFileobjectReturns ==
    last.op = "get_fileobject" /\ stfp_tunnel # None =>
        last.out = "returned" /\ last.ret = AttrsRet

\* C17: in every reachable state, also after calls that failed, a stored
\* tunnel handle implies a stored session handle, and that session is
\* connected.
C17_TunnelNeedsSession == stfp_tunnel # None => client # None /\ connected

\* A call failed while the tunnel stayed open.
C17_Witness == stfp_tunnel # None /\ last.out = "raised" /\ client # None

\* C18: a stored session handle is always one on which a connect call
\* succeeded; after a failed connect_ssh no handle is stored.
C18_StoredHandleIsLive ==
    /\ (client # None => connected)
    /\ (last.op = "connect_ssh" /\ last.out = "raised" => client = None)

\* The calls that are meant to leave the connection open for the next one.
Reuse(call) ==
    \/ call.op \in {"send", "send_fileobject", "get"}
    \/ call.op \in Uploads /\ ~call.flag

\* The call moved its file.
Succeeded(call) == call.out = "returned" /\ call.ret = AttrsRet

\* The first two calls on a fresh client were reusing calls that both moved
\* their file.
TwoTransfers ==
    /\ nOps = 2
    /\ Reuse(prev) /\ Succeeded(prev)
    /\ Reuse(last) /\ Succeeded(last)

\* C19 as stated: over a sequence of reusing calls from a disconnected
\* client, connect is called exactly once and open_sftp exactly once, and the
\* later call keeps the handles of the earlier one.
C19_OneDialOneOpen ==
    TwoTransfers =>
        /\ dials = 1
        /\ sftpOpens = 1
        /\ client = last.pre.client /\ stfp_tunnel = last.pre.stfp_tunnel

\* C19 amended: a reusing call closes neither the session nor the tunnel; if
\* it starts with a stored session handle it makes no connect call and keeps
\* the handle; if it starts with an open tunnel it makes no open_sftp call and
\* keeps the tunnel.  Once the first call on a disconnected client has moved
\* its file, the connect calls in total are those of that call (one, or two
\* with the password retry) and open_sftp was called once.
C19_ConnectionReuse ==
    Reuse(last) =>
        /\ \A i \in Pos : trace[i] \notin {"client.close", "sftp.close"}
        /\ (last.pre.client # None
              => /\ client = last.pre.client
                 /\ dials = last.pre.dials
                 /\ nClients = last.pre.nClients)
        /\ (last.pre.stfp_tunnel # None
              => /\ stfp_tunnel = last.pre.stfp_tunnel
                 /\ sftpOpens = last.pre.sftpOpens)
        /\ (nOps = 2 /\ Reuse(prev) /\ Succeeded(prev)
              => /\ nClients = 1
                 /\ pwConnects \in {0, 1}
                 /\ dials = 1 + pwConnects
                 /\ sftpOpens = 1
                 /\ stfp_tunnel # None)

C19_Witness ==
    /\ TwoTransfers /\ pwConnects = 1
    /\ prev.op = "upload_file" /\ last.op = "send_fileobject"

\* The put of the staging upload was called and did not raise.
PutOk ==
    \E i \in Pos : trace[i] = "put" /\ i < Len(trace) /\ trace[i + 1] # "IOError"

\* C20: run_python_script with a local script path dispatches the command
\* only if the upload of the script succeeded: when the call returned the
\* streams of a dispatched command, the put of the script had succeeded.
C20_DispatchOnlyAfterStaging ==
    last.op = "run_python_script" /\ last.flag /\ last.out = "returned" => PutOk
\* The call followed is run_python_script and its command has been built.
ScriptDone == computed.fn = "run_python_script"

\* The arguments token of the command as lines 138-140 append it.
ArgsToken ==
    IF given.py_args # {} THEN <<StrJoin(Space, The(given.py_args))>> ELSE <<>>

\* The command run_python_script builds around the script name script.
CommandFor(script) ==
    StrJoin(Space,
            <<given.python_cmd>>
            \o (IF given.cmd_opt # {} THEN <<The(given.cmd_opt)>> ELSE <<>>)
            \o <<script>>
            \o ArgsToken)

\* C12 as stated: run_python_script resolves the script destination by
\* upload_file's rule (no suffix on the remote path: the local name is
\* appended; otherwise the remote path's own final component is kept); the
\* script is staged there and the command names that file.
C12_SameAsUploadFile ==
    ScriptDone /\ given.local_path # {} =>
        LET dest == upload_file_target(The(given.local_path), given.python_path)
        IN  /\ computed.staged = {dest}
            /\ computed.command = CommandFor(Name(dest))

\* C12 amended: the destination always carries the local file's name: it is
\* appended to a remote path without suffix and replaces the final component
\* of a remote path with one.  The command names the local file's name, and
\* the script is staged at that destination, under which upload_file appends
\* the local name once more when that name has no suffix itself.
C12_LocalNameUsed ==
    ScriptDone /\ given.local_path # {} =>
        LET lp == _pathtype_check(The(given.local_path))
            pp == _pathtype_check(given.python_path)
            dest == Join(IF Suffix(pp) = <<>> THEN pp ELSE Parent(pp), Name(lp))
        IN  /\ computed.staged
                 = { IF Suffix(lp) = <<>> THEN Join(dest, Name(lp)) ELSE dest }
            /\ computed.command = CommandFor(Name(lp))

\* Local run.py, remote .../other.py: staged as .../run.py.
C12_Witness ==
    /\ ScriptDone /\ given.local_path # {}
    /\ Name(given.python_path) = <<"o", "t", "h", "e", "r", ".", "p", "y">>
    /\ Name(The(given.local_path)) = <<"r", "u", "n", ".", "p", "y">>
    /\ \E d \in computed.staged :
          /\ Name(d) = <<"r", "u", "n", ".", "p", "y">>
          /\ Parent(d) = Parent(_pathtype_check(given.python_path))

\* C13: the command is the single-space join of the interpreter command, the
\* option if given, the final component of the remote script path and the
\* arguments in order if given; what is absent adds no token and no space.
C13_CommandIsTokenJoin ==
    ScriptDone /\ given.local_path = {} =>
        computed.command
          = StrJoin(Space,
                    <<given.python_cmd>>
                    \o (IF given.cmd_opt # {} THEN <<The(given.cmd_opt)>> ELSE <<>>)
                    \o <<Name(_pathtype_check(given.python_path))>>
                    \o (IF given.py_args # {} THEN The(given.py_args) ELSE <<>>))

\* The name with its suffix replaced by .json, or .json appended if it has
\* none (what pathlib's with_suffix does).
WithJsonSuffix(fname) ==
    LET i == LastDot(fname)
    IN  IF 1 < i /\ i < Len(fname) THEN SubSeq(fname, 1, i - 1) \o JsonSuffix
        ELSE fname \o JsonSuffix

\* C14: upload_data targets host_path joined with the file name whose
\* suffix is replaced by .json, the rest of the name kept, also when the
\* name has more than one dot.
C14_JsonSuffixReplaced ==
    computed.fn = "upload_data" =>
        computed.target
          = Join(_pathtype_check(given.host_path), WithJsonSuffix(given.fname))
====
